---- MODULE Spec2Model ----
(***************************************************************************)
(* Model of the Roblox visit counter (api/visits.js, api/get-visits.js):   *)
(* one HTTP handler, a module-level Map used as a memo cache, and three    *)
(* kinds of upstream call.  A JavaScript string is a sequence of           *)
(* one-character strings; every request in flight is a slot of req, and    *)
(* a step of the model is the code that runs between two awaits.           *)
(***************************************************************************)
EXTENDS Integers, Sequences, FiniteSets, TLC

(***************************************************************************)
(* Program constants                                                       *)
(***************************************************************************)

DEVELOPER_ROLES ==
    << <<"d", "e", "v", "e", "l", "o", "p", "e", "r">>,
       <<"b", "u", "i", "l", "d", "e", "r">>,
       <<"s", "c", "r", "i", "p", "t", "e", "r">>,
       <<"p", "r", "o", "g", "r", "a", "m", "m", "e", "r">>,
       <<"l", "e", "a", "d", " ", "d", "e", "v", "e", "l", "o", "p", "e", "r">>,
       <<"c", "o", "-", "o", "w", "n", "e", "r">>,
       <<"o", "w", "n", "e", "r">>,
       <<"d", "e", "v">>,
       <<"g", "a", "m", "e", " ", "d", "e", "v", "e", "l", "o", "p", "e", "r">>,
       <<"l", "e", "a", "d", " ", "s", "c", "r", "i", "p", "t", "e", "r">>,
       <<"h", "e", "a", "d", " ", "d", "e", "v", "e", "l", "o", "p", "e", "r">> >>

CACHE_DURATION == 300000

CACHE_LIMIT == 100

(***************************************************************************)
(* Bounds of the model                                                     *)
(***************************************************************************)

\* how many requests arrive in one behaviour; each has a slot of its own
NumReqs == 2

\* the clock stops advancing here (milliseconds)
MaxNow == 300000

\* entries in the cache when SpecFull starts
Prefill == 99

\* longest membership list an upstream reply carries in SpecAgg
MaxGroups == 3

\* longest generated role name in SpecRole
MaxRoleLen == 3

Reqs == 1..NumReqs

(***************************************************************************)
(* Strings                                                                 *)
(***************************************************************************)

UpperCase == <<"A", "B", "C", "D", "E", "F", "G", "H", "I", "J", "K", "L", "M",
               "N", "O", "P", "Q", "R", "S", "T", "U", "V", "W", "X", "Y", "Z">>

LowerCase == <<"a", "b", "c", "d", "e", "f", "g", "h", "i", "j", "k", "l", "m",
               "n", "o", "p", "q", "r", "s", "t", "u", "v", "w", "x", "y", "z">>

DigitChars == <<"0", "1", "2", "3", "4", "5", "6", "7", "8", "9">>

\* String.prototype.toLowerCase, on the characters the model uses
toLowerCase(s) ==
    [i \in 1..Len(s) |->
        IF \E k \in 1..26 : UpperCase[k] = s[i]
        THEN LowerCase[CHOOSE k \in 1..26 : UpperCase[k] = s[i]]
        ELSE s[i]]

\* String.prototype.includes
includes(s, sub) ==
    \E i \in 0..(Len(s) - Len(sub)) : SubSeq(s, i + 1, i + Len(sub)) = sub

\* faulty variant: the role name is compared as it is, not lowercased
isDeveloperRoleCaseSensitive(roleName) ==
    \E k \in 1..Len(DEVELOPER_ROLES) : includes(roleName, DEVELOPER_ROLES[k])

isDeveloperRole(roleName) ==
    LET lower == toLowerCase(roleName)
    IN  \E k \in 1..Len(DEVELOPER_ROLES) : includes(lower, DEVELOPER_ROLES[k])

\* the decimal digits of n, as template-literal interpolation writes a number
RECURSIVE ToDigits(_)
ToDigits(n) ==
    IF n < 10 THEN <<DigitChars[n + 1]>>
    ELSE ToDigits(n \div 10) \o <<DigitChars[(n % 10) + 1]>>

\* faulty variant: the pattern without its anchors, /\d+/
IsNumericUnanchored(userId) ==
    \E i \in 1..Len(userId) : \E k \in 1..10 : DigitChars[k] = userId[i]

\* /^\d+$/.test(userId)
IsNumeric(userId) ==
    /\ Len(userId) >= 1
    /\ \A i \in 1..Len(userId) : \E k \in 1..10 : DigitChars[k] = userId[i]

\* `visits_${userId}`
CacheKey(userId) == <<"v", "i", "s", "i", "t", "s", "_">> \o userId

\* new Date(t).toISOString(): a text that stands for the instant t
toISOString(t) == <<"ISO-8601", t>>

(***************************************************************************)
(* Upstream replies                                                        *)
(*                                                                         *)
(* A reply is what fetchJSON does with one call: it throws (network error, *)
(* non-success status) or returns the parsed body, whose data field may be *)
(* missing.  A game is an object with or without placeVisits, or null; a   *)
(* membership may lack its role, its role's name or its group.             *)
(***************************************************************************)

Game(visits) == [isObject |-> TRUE, hasPlaceVisits |-> TRUE, placeVisits |-> visits]

GameNoCounter == [isObject |-> TRUE, hasPlaceVisits |-> FALSE, placeVisits |-> 0]

NullGame == [isObject |-> FALSE, hasPlaceVisits |-> FALSE, placeVisits |-> 0]

Membership(roleName, groupId) ==
    [hasRole |-> TRUE, hasName |-> TRUE, roleName |-> roleName,
     hasGroup |-> TRUE, groupId |-> groupId]

Threw(why) == [ok |-> FALSE, why |-> why, hasData |-> FALSE, data |-> <<>>]

Body(data) == [ok |-> TRUE, why |-> "", hasData |-> TRUE, data |-> data]

BodyNoData == [ok |-> TRUE, why |-> "", hasData |-> FALSE, data |-> <<>>]

\* body.data || []
DataOrEmpty(reply) == IF reply.hasData THEN reply.data ELSE <<>>

(***************************************************************************)
(* The cache: a Map, which iterates in insertion order.  It is the         *)
(* sequence of its entries, oldest insertion first.                        *)
(***************************************************************************)

CacheKeys(c) == {c[i].key : i \in 1..Len(c)}

CacheIndex(c, key) == CHOOSE i \in 1..Len(c) : c[i].key = key

\* cache.get(cacheKey)
CacheGet(c, key) ==
    IF key \in CacheKeys(c)
    THEN [found |-> TRUE, data |-> c[CacheIndex(c, key)].data,
          timestamp |-> c[CacheIndex(c, key)].timestamp]
    ELSE [found |-> FALSE, data |-> [kind |-> "none"], timestamp |-> 0]

\* faulty variant: an entry of age CACHE_DURATION or more still counts
IsFreshNoExpiry(cached, t) == cached.found

\* faulty variant: the comparison the wrong way round
IsFreshInverted(cached, t) == cached.found /\ t - cached.timestamp > CACHE_DURATION

\* faulty variant: <= where the code has <
IsFreshInclusive(cached, t) == cached.found /\ t - cached.timestamp <= CACHE_DURATION

\* cached && Date.now() - cached.timestamp < CACHE_DURATION
IsFresh(cached, t) == cached.found /\ t - cached.timestamp < CACHE_DURATION

\* faulty variant: Map.set as delete-then-insert, which moves the key to the end
CacheSetMoveToEnd(c, key, data, t) ==
    SelectSeq(c, LAMBDA e : e.key # key)
        \o <<[key |-> key, data |-> data, timestamp |-> t]>>

\* faulty variant: a result without visits is not stored
CacheSetSkipsZero(c, key, data, t) ==
    IF data.totalVisits = 0 THEN c
    ELSE IF key \in CacheKeys(c)
    THEN [c EXCEPT ![CacheIndex(c, key)] =
                [key |-> key, data |-> data, timestamp |-> t]]
    ELSE Append(c, [key |-> key, data |-> data, timestamp |-> t])

\* faulty variant: a key already present keeps its entry
CacheSetIfAbsent(c, key, data, t) ==
    IF key \in CacheKeys(c) THEN c
    ELSE Append(c, [key |-> key, data |-> data, timestamp |-> t])

\* cache.set(cacheKey, {data, timestamp}): a key already present keeps its
\* place in the iteration order
CacheSet(c, key, data, t) ==
    IF key \in CacheKeys(c)
    THEN [c EXCEPT ![CacheIndex(c, key)] =
                [key |-> key, data |-> data, timestamp |-> t]]
    ELSE Append(c, [key |-> key, data |-> data, timestamp |-> t])

\* faulty variant: the newest entry is the one deleted
CacheCleanNewest(c) ==
    IF Len(c) > CACHE_LIMIT THEN SubSeq(c, 1, Len(c) - 1) ELSE c

\* if (cache.size > 100) cache.delete(cache.keys().next().value)
CacheClean(c) == IF Len(c) > CACHE_LIMIT THEN Tail(c) ELSE c

(***************************************************************************)
(* The aggregation                                                         *)
(***************************************************************************)

\* for (const game of games) { visits += game.placeVisits || 0; count++ }
\* reading placeVisits of null throws, and the loop stops where it is
RECURSIVE FoldGames(_, _, _, _)
FoldGames(games, i, visits, count) ==
    IF i > Len(games) THEN [visits |-> visits, count |-> count, threw |-> FALSE]
    ELSE IF ~games[i].isObject
         THEN [visits |-> visits, count |-> count, threw |-> TRUE]
         ELSE FoldGames(games, i + 1,
                        visits + (IF games[i].hasPlaceVisits
                                  THEN games[i].placeVisits ELSE 0),
                        count + 1)

\* faulty variant: the catch block zeroes the running totals
GamesOfReplyResets(reply, visits, count) ==
    IF reply.ok THEN FoldGames(DataOrEmpty(reply), 1, visits, count)
    ELSE [visits |-> 0, count |-> 0, threw |-> TRUE]

\* try { data = await fetchJSON(url); fold } catch (err) { log }
GamesOfReply(reply, visits, count) ==
    IF reply.ok THEN FoldGames(DataOrEmpty(reply), 1, visits, count)
    ELSE [visits |-> visits, count |-> count, threw |-> TRUE]

\* try { groups = (await fetchJSON(url)).data || [] } catch (err) { log }
GroupsOfReply(reply) == IF reply.ok THEN DataOrEmpty(reply) ELSE <<>>

\* faulty variant: break where the code has continue
RECURSIVE GroupLoopBreak(_, _)
GroupLoopBreak(groups, i) ==
    IF i > Len(groups) THEN [k |-> "end", i |-> i, details |-> ""]
    ELSE IF ~groups[i].hasRole
         THEN [k |-> "throw", i |-> i,
               details |-> "Cannot read properties of undefined (reading 'name')"]
    ELSE IF ~groups[i].hasName
         THEN [k |-> "throw", i |-> i,
               details |-> "Cannot read properties of undefined (reading 'toLowerCase')"]
    ELSE IF ~isDeveloperRole(groups[i].roleName)
         THEN [k |-> "end", i |-> i, details |-> ""]
    ELSE IF ~groups[i].hasGroup
         THEN [k |-> "throw", i |-> i,
               details |-> "Cannot read properties of undefined (reading 'id')"]
    ELSE [k |-> "await", i |-> i, details |-> ""]

\* faulty variant: a membership without a role is passed over (role?.name)
RECURSIVE GroupLoopSkipsRoleless(_, _)
GroupLoopSkipsRoleless(groups, i) ==
    IF i > Len(groups) THEN [k |-> "end", i |-> i, details |-> ""]
    ELSE IF ~groups[i].hasRole \/ ~groups[i].hasName
         THEN GroupLoopSkipsRoleless(groups, i + 1)
    ELSE IF ~isDeveloperRole(groups[i].roleName)
         THEN GroupLoopSkipsRoleless(groups, i + 1)
    ELSE IF ~groups[i].hasGroup
         THEN [k |-> "throw", i |-> i,
               details |-> "Cannot read properties of undefined (reading 'id')"]
    ELSE [k |-> "await", i |-> i, details |-> ""]

\* faulty variant: the role is not looked at, every group's games are fetched
GroupLoopNoFilter(groups, i) ==
    IF i > Len(groups) THEN [k |-> "end", i |-> i, details |-> ""]
    ELSE IF ~groups[i].hasRole
         THEN [k |-> "throw", i |-> i,
               details |-> "Cannot read properties of undefined (reading 'name')"]
    ELSE IF ~groups[i].hasGroup
         THEN [k |-> "throw", i |-> i,
               details |-> "Cannot read properties of undefined (reading 'id')"]
    ELSE [k |-> "await", i |-> i, details |-> ""]

\* The membership loop from index i up to its next await: it ends, it throws
\* outside every inner try (a TypeError), or it stops at a developer-tier
\* membership whose games are fetched next.
RECURSIVE GroupLoop(_, _)
GroupLoop(groups, i) ==
    IF i > Len(groups) THEN [k |-> "end", i |-> i, details |-> ""]
    ELSE IF ~groups[i].hasRole
         THEN [k |-> "throw", i |-> i,
               details |-> "Cannot read properties of undefined (reading 'name')"]
    ELSE IF ~groups[i].hasName
         THEN [k |-> "throw", i |-> i,
               details |-> "Cannot read properties of undefined (reading 'toLowerCase')"]
    ELSE IF ~isDeveloperRole(groups[i].roleName)
         THEN GroupLoop(groups, i + 1)
    ELSE IF ~groups[i].hasGroup
         THEN [k |-> "throw", i |-> i,
               details |-> "Cannot read properties of undefined (reading 'id')"]
    ELSE [k |-> "await", i |-> i, details |-> ""]

NOTE == "Using placeVisits from games API. For exact universe visits, add Roblox Cloud API key."

\* faulty variant: the total leaves the group visits out
ResultOfPersonalOnly(l, t) ==
    [kind |-> "json", success |-> TRUE,
     totalVisits |-> l.personalVisits,
     breakdown |-> [personalVisits |-> l.personalVisits,
                    groupVisits |-> l.groupVisits,
                    totalGames |-> l.personalGameCount + l.groupGameCount,
                    personalGames |-> l.personalGameCount,
                    groupGames |-> l.groupGameCount],
     note |-> NOTE, timestamp |-> toISOString(t)]

\* the result object of a finished aggregation
ResultOf(l, t) ==
    [kind |-> "json", success |-> TRUE,
     totalVisits |-> l.personalVisits + l.groupVisits,
     breakdown |-> [personalVisits |-> l.personalVisits,
                    groupVisits |-> l.groupVisits,
                    totalGames |-> l.personalGameCount + l.groupGameCount,
                    personalGames |-> l.personalGameCount,
                    groupGames |-> l.groupGameCount],
     note |-> NOTE, timestamp |-> toISOString(t)]

(***************************************************************************)
(* State                                                                   *)
(***************************************************************************)

VARIABLES
    cache,      \* the module-level Map, oldest insertion first
    now,        \* Date.now()
    req,        \* per request slot: req.method, req.query and the handler's locals
    res,        \* per request slot: the response sent, status 0 while none is
    trace,      \* per request slot: the cache operations and upstream calls made
    replies,    \* per request slot: the upstream replies received, in call order
    probe       \* a role name and what isDeveloperRole answered for it

vars == <<cache, now, req, res, trace, replies, probe>>

NoUserId == [has |-> FALSE, userId |-> <<>>]

UserId(s) == [has |-> TRUE, userId |-> s]

Idle ==
    [pc |-> "idle", method |-> "", query |-> NoUserId, userId |-> <<>>,
     personalVisits |-> 0, groupVisits |-> 0,
     personalGameCount |-> 0, groupGameCount |-> 0,
     groups |-> <<>>, idx |-> 0]

NoResponse == [status |-> 0, body |-> [kind |-> "none"]]

NoProbe == [roleName |-> <<>>, classified |-> FALSE, result |-> FALSE]

Ev(ev, what, at) == [ev |-> ev, what |-> what, at |-> at]

Fetch(what, at) == Ev("fetch", what, at)

\* the all-zero summary of the user `id`, as stored when every upstream call
\* of its aggregation failed at time 0
ZeroEntry(id) ==
    [key |-> CacheKey(ToDigits(id)), data |-> ResultOf(Idle, 0), timestamp |-> 0]

\* the users whose entries fill the cache when SpecFull starts, oldest first
Filler(i) == 100 + i

TypeOK ==
    /\ now \in 0..MaxNow
    /\ \A r \in Reqs :
          req[r].pc \in {"idle", "awaitUserGames", "awaitGroups",
                         "awaitGroupGames", "done"}

InitWith(c) ==
    /\ cache = c
    /\ now = 0
    /\ req = [r \in Reqs |-> Idle]
    /\ res = [r \in Reqs |-> NoResponse]
    /\ trace = [r \in Reqs |-> <<>>]
    /\ replies = [r \in Reqs |-> <<>>]
    /\ probe = NoProbe

Init == InitWith(<<>>)

(***************************************************************************)
(* The handler, one action per stretch of code between two awaits          *)
(***************************************************************************)

\* the request in slot r is answered: nothing of it is left running
Respond(r, l, status, body, tr) ==
    /\ req' = [req EXCEPT ![r] = [l EXCEPT !.pc = "done"]]
    /\ res' = [res EXCEPT ![r] = [status |-> status, body |-> body]]
    /\ trace' = [trace EXCEPT ![r] = tr]

\* lines 131-162: the totals, the result, cache.set, the cleaning, the response
Finish(r, l, tr) ==
    LET result == ResultOf(l, now)
        stored == CacheSet(cache, CacheKey(l.userId), result, now)
        cleaned == CacheClean(stored)
    IN  /\ cache' = cleaned
        /\ Respond(r, l, 200, result,
                   tr \o <<Ev("cache.set", "", 0)>>
                      \o (IF cleaned # stored THEN <<Ev("cache.delete", "", 0)>>
                          ELSE <<>>))

\* lines 164-172: the outer catch
Fatal(r, l, details, tr) ==
    /\ UNCHANGED cache
    /\ Respond(r, l, 500,
               [kind |-> "json", success |-> FALSE,
                error |-> "Failed to fetch visit data",
                details |-> details, userId |-> l.userId],
               tr)

\* lines 100-129, from membership l.idx on, up to the next await or the end
Continue(r, l, tr) ==
    LET out == GroupLoop(l.groups, l.idx)
    IN  CASE out.k = "await" ->
                /\ req' = [req EXCEPT ![r] =
                              [l EXCEPT !.pc = "awaitGroupGames", !.idx = out.i]]
                /\ trace' = [trace EXCEPT ![r] =
                                Append(tr, Fetch("groupGames", out.i))]
                /\ UNCHANGED <<cache, res>>
          [] out.k = "throw" -> Fatal(r, [l EXCEPT !.idx = out.i], out.details, tr)
          [] OTHER -> Finish(r, [l EXCEPT !.idx = out.i], tr)

\* lines 36-59: what the handler decides before it aggregates, for the cache
\* c at time t: a response, or "aggregate"
\* faulty variant: the userId is validated before the method is looked at
EnterValidatesFirst(method, query, c, t) ==
    LET cached == CacheGet(c, CacheKey(query.userId))
    IN  IF ~query.has \/ query.userId = <<>>
        THEN [do |-> "respond", status |-> 400, tr |-> <<>>,
              body |-> [kind |-> "json", error |-> "Missing userId parameter",
                        usage |-> "GET /api/get-visits?userId=123456"]]
        ELSE IF ~IsNumeric(query.userId)
        THEN [do |-> "respond", status |-> 400, tr |-> <<>>,
              body |-> [kind |-> "json",
                        error |-> "Invalid userId - must be numeric"]]
        ELSE IF method = "OPTIONS"
        THEN [do |-> "respond", status |-> 200, body |-> [kind |-> "end"],
              tr |-> <<>>]
        ELSE IF IsFresh(cached, t)
        THEN [do |-> "respond", status |-> 200, body |-> cached.data,
              tr |-> <<Ev("cache.get", "", 0)>>]
        ELSE [do |-> "aggregate", status |-> 0, body |-> [kind |-> "none"],
              tr |-> <<Ev("cache.get", "", 0)>>]

Enter(method, query, c, t) ==
    LET cached == CacheGet(c, CacheKey(query.userId))
    IN  IF method = "OPTIONS"
        THEN [do |-> "respond", status |-> 200, body |-> [kind |-> "end"],
              tr |-> <<>>]
        ELSE IF ~query.has \/ query.userId = <<>>
        THEN [do |-> "respond", status |-> 400, tr |-> <<>>,
              body |-> [kind |-> "json", error |-> "Missing userId parameter",
                        usage |-> "GET /api/get-visits?userId=123456"]]
        ELSE IF ~IsNumeric(query.userId)
        THEN [do |-> "respond", status |-> 400, tr |-> <<>>,
              body |-> [kind |-> "json",
                        error |-> "Invalid userId - must be numeric"]]
        ELSE IF IsFresh(cached, t)
        THEN [do |-> "respond", status |-> 200, body |-> cached.data,
              tr |-> <<Ev("cache.get", "", 0)>>]
        ELSE [do |-> "aggregate", status |-> 0, body |-> [kind |-> "none"],
              tr |-> <<Ev("cache.get", "", 0)>>]

\* lines 30-73: a request arrives and runs up to its first await; the
\* requests take the slots in the order of their arrival
Start(r, method, query) ==
    /\ req[r].pc = "idle"
    /\ \A o \in 1..(r - 1) : req[o].pc # "idle"
    /\ UNCHANGED <<cache, now, replies, probe>>
    /\ LET l == [Idle EXCEPT !.method = method, !.query = query,
                             !.userId = query.userId]
           e == Enter(method, query, cache, now)
       IN  IF e.do = "respond"
           THEN Respond(r, l, e.status, e.body, e.tr)
           ELSE /\ req' = [req EXCEPT ![r] = [l EXCEPT !.pc = "awaitUserGames"]]
                /\ res' = res
                /\ trace' = [trace EXCEPT ![r] =
                                Append(e.tr, Fetch("userGames", 0))]

\* lines 72-92: the personal games arrive (or the call throws); the groups
\* are asked for
UserGamesDone(r, reply) ==
    /\ req[r].pc = "awaitUserGames"
    /\ LET g == GamesOfReply(reply, req[r].personalVisits, req[r].personalGameCount)
       IN  req' = [req EXCEPT ![r].pc = "awaitGroups",
                              ![r].personalVisits = g.visits,
                              ![r].personalGameCount = g.count]
    /\ trace' = [trace EXCEPT ![r] = Append(@, Fetch("groups", 0))]
    /\ replies' = [replies EXCEPT ![r] = Append(@, reply)]
    /\ UNCHANGED <<cache, now, res, probe>>

\* faulty variant: no try/catch around the memberships call, so its failure
\* reaches the outer catch
GroupsDoneRethrows(r, reply) ==
    /\ req[r].pc = "awaitGroups"
    /\ replies' = [replies EXCEPT ![r] = Append(@, reply)]
    /\ UNCHANGED <<now, probe>>
    /\ IF reply.ok
       THEN Continue(r, [req[r] EXCEPT !.groups = GroupsOfReply(reply), !.idx = 1],
                     trace[r])
       ELSE Fatal(r, req[r], reply.why, trace[r])

\* lines 91-115 (or to the end): the memberships arrive (or the call throws);
\* the loop runs to its first developer-tier membership
GroupsDone(r, reply) ==
    /\ req[r].pc = "awaitGroups"
    /\ replies' = [replies EXCEPT ![r] = Append(@, reply)]
    /\ UNCHANGED <<now, probe>>
    /\ Continue(r, [req[r] EXCEPT !.groups = GroupsOfReply(reply), !.idx = 1],
                trace[r])

\* lines 114-129 and on: one group's games arrive (or the call throws); the
\* loop goes on with the next membership
GroupGamesDone(r, reply) ==
    /\ req[r].pc = "awaitGroupGames"
    /\ replies' = [replies EXCEPT ![r] = Append(@, reply)]
    /\ UNCHANGED <<now, probe>>
    /\ LET g == GamesOfReply(reply, req[r].groupVisits, req[r].groupGameCount)
       IN  Continue(r, [req[r] EXCEPT !.groupVisits = g.visits,
                                      !.groupGameCount = g.count,
                                      !.idx = req[r].idx + 1],
                    trace[r])

\* time passes
Tick(d) ==
    /\ now + d <= MaxNow
    /\ now' = now + d
    /\ UNCHANGED <<cache, req, res, trace, replies, probe>>

(***************************************************************************)
(* Inputs                                                                  *)
(***************************************************************************)

Methods == {"GET", "OPTIONS"}

Users == {1, 2}

BadUserIds == {<<>>, <<"a", "b", "c">>, <<"1", "2", "a">>}

Queries == {NoUserId} \cup {UserId(s) : s \in BadUserIds}
               \cup {UserId(ToDigits(u)) : u \in Users}

CoOwner == <<"C", "o", "-", "O", "w", "n", "e", "r">>

LeadScripter == <<"L", "E", "A", "D", " ", "S", "C", "R", "I", "P", "T", "E", "R">>

Moderator == <<"M", "o", "d", "e", "r", "a", "t", "o", "r">>

NoRole == [Membership(<<>>, 9) EXCEPT !.hasRole = FALSE, !.hasName = FALSE]

GameReplies == {Threw("HTTP 500"), Body(<<Game(5)>>)}

GroupsReplies ==
    {Threw("HTTP 429"), Body(<<Membership(CoOwner, 1)>>),
     Body(<<Membership(CoOwner, 1), NoRole>>)}

TickSteps == {CACHE_DURATION - 1, CACHE_DURATION}

Next ==
    \/ \E r \in Reqs, m \in Methods, q \in Queries : Start(r, m, q)
    \/ \E r \in Reqs, reply \in GameReplies : UserGamesDone(r, reply)
    \/ \E r \in Reqs, reply \in GroupsReplies : GroupsDone(r, reply)
    \/ \E r \in Reqs, reply \in GameReplies : GroupGamesDone(r, reply)
    \/ \E d \in TickSteps : Tick(d)

Spec == Init /\ [][Next]_vars

(***************************************************************************)
(* One aggregation run, over a wider range of upstream replies             *)
(***************************************************************************)

AggGameReplies ==
    {Threw("HTTP 500"), BodyNoData,
     Body(<<Game(5), GameNoCounter, Game(7)>>),
     Body(<<Game(3), NullGame, Game(4)>>)}

AggMemberships ==
    {Membership(CoOwner, 1), Membership(LeadScripter, 2),
     Membership(Moderator, 3), NoRole}

\* memberships that lack a part other than the role
OddMembershipLists ==
    {<<[Membership(<<>>, 4) EXCEPT !.hasName = FALSE]>>,
     <<Membership(CoOwner, 1), [Membership(CoOwner, 0) EXCEPT !.hasGroup = FALSE]>>,
     <<[Membership(Moderator, 0) EXCEPT !.hasGroup = FALSE], Membership(CoOwner, 1)>>}

AggMembershipLists ==
    UNION {[1..n -> AggMemberships] : n \in 0..MaxGroups} \cup OddMembershipLists

AggGroupsReplies ==
    {Threw("HTTP 429"), BodyNoData} \cup {Body(l) : l \in AggMembershipLists}

NextAgg ==
    \/ Start(1, "GET", UserId(ToDigits(1)))
    \/ \E reply \in AggGameReplies : UserGamesDone(1, reply)
    \/ \E reply \in AggGroupsReplies : GroupsDone(1, reply)
    \/ \E reply \in AggGameReplies : GroupGamesDone(1, reply)

SpecAgg == Init /\ [][NextAgg]_vars

(***************************************************************************)
(* A cache that is nearly full or full                                     *)
(***************************************************************************)

FullUsers == {1, 2, Filler(1)}

InitFull ==
    \E n \in {Prefill, CACHE_LIMIT} :
        InitWith([i \in 1..n |-> ZeroEntry(Filler(i))])

\* the requests come one after the other, in slot order
NextFull ==
    \/ \E r \in Reqs, u \in FullUsers :
          /\ \A o \in 1..(r - 1) : req[o].pc = "done"
          /\ Start(r, "GET", UserId(ToDigits(u)))
    \/ \E r \in Reqs, reply \in GameReplies : UserGamesDone(r, reply)
    \/ \E r \in Reqs, reply \in GroupsReplies : GroupsDone(r, reply)
    \/ \E r \in Reqs, reply \in GameReplies : GroupGamesDone(r, reply)
    \/ \E d \in TickSteps : Tick(d)

SpecFull == InitFull /\ [][NextFull]_vars

(***************************************************************************)
(* Overlapping requests against a cache of 99 or 100 entries, within the   *)
(* lifetime of an entry.                                                   *)
(***************************************************************************)

NextRace ==
    \/ \E r \in Reqs, u \in Users : Start(r, "GET", UserId(ToDigits(u)))
    \/ \E r \in Reqs, reply \in GameReplies : UserGamesDone(r, reply)
    \/ \E r \in Reqs, reply \in GroupsReplies : GroupsDone(r, reply)
    \/ \E r \in Reqs, reply \in GameReplies : GroupGamesDone(r, reply)

SpecRace == InitFull /\ [][NextRace]_vars

(***************************************************************************)
(* isDeveloperRole on its own                                              *)
(***************************************************************************)

NamedRoles ==
    {CoOwner, LeadScripter, Moderator,
     <<"M", "e", "m", "b", "e", "r">>,
     <<"G", "u", "e", "s", "t">>,
     <<"D", "e", "v", "e", "l", "o", "p", "e", "r">>,
     <<"H", "e", "a", "d", " ", "D", "e", "v", "e", "l", "o", "p", "e", "r">>,
     <<"G", "a", "m", "e", " ", "D", "e", "v", "e", "l", "o", "p", "e", "r">>,
     <<"L", "e", "a", "d", " ", "d", "e", "v", "e", "l", "o", "p", "e", "r">>,
     <<"B", "u", "i", "l", "d", "e", "r">>,
     <<"B", "U", "I", "L", "D", "E", "R", "M", "A", "N">>,
     <<"P", "r", "o", "g", "r", "a", "m", "m", "e", "r">>,
     <<"S", "c", "r", "i", "p", "t", "e", "r">>,
     <<"S", "c", "r", "i", "p", "t", " ", "W", "r", "i", "t", "e", "r">>,
     <<"O", "w", "n", "e", "r">>,
     <<"O", "w", "n">>,
     <<"G", "r", "o", "u", "p", " ", "O", "w", "n", "e", "r">>,
     <<"C", "o", " ", "O", "w", "n", "e", "r">>,
     <<"A", "d", "m", "i", "n">>,
     <<"T", "e", "s", "t", "e", "r">>,
     <<"D", "e", "v", "o", "t", "e", "d", " ", "F", "a", "n">>,
     <<"V", "e", "n", "d", "o", "r">>,
     <<"d", "e", "v", "e", " ", "l", "o", "p", "e", "r">>,
     <<"D", ".", "E", ".", "V">>,
     <<"L", "e", "a", "d">>,
     <<"H", "e", "a", "d">>}

RoleAlphabet == {"d", "e", "v", "D", "-"}

RoleNames ==
    NamedRoles \cup UNION {[1..n -> RoleAlphabet] : n \in 0..MaxRoleLen}

InitRole ==
    /\ cache = <<>>
    /\ now = 0
    /\ req = [r \in Reqs |-> Idle]
    /\ res = [r \in Reqs |-> NoResponse]
    /\ trace = [r \in Reqs |-> <<>>]
    /\ replies = [r \in Reqs |-> <<>>]
    /\ probe \in {[roleName |-> n, classified |-> FALSE, result |-> FALSE] :
                     n \in RoleNames}

\* line 104: a membership's role name is classified
Classify ==
    /\ ~probe.classified
    /\ probe' = [probe EXCEPT !.classified = TRUE,
                              !.result = isDeveloperRole(probe.roleName)]
    /\ UNCHANGED <<cache, now, req, res, trace, replies>>

NextRole == Classify

SpecRole == InitRole /\ [][NextRole]_vars

(***************************************************************************)
(* What the properties below speak about                                   *)
(***************************************************************************)

Done(r) == req[r].pc = "done"

\* the upstream calls request r has made, in order
Calls(r) == SelectSeq(trace[r], LAMBDA e : e.ev = "fetch")

\* request r has written the cache
Wrote(r) == \E i \in 1..Len(trace[r]) : trace[r][i].ev = "cache.set"

\* request r was answered 200 with a summary
Succeeded(r) == res[r].status = 200 /\ res[r].body.kind = "json"

\* ... and the summary came out of the cache
ServedFromCache(r) == Succeeded(r) /\ Calls(r) = <<>>

CacheEntries(c) == {c[i] : i \in 1..Len(c)}

\* some upstream call of request r failed
Degraded(r) == \E k \in 1..Len(replies[r]) : ~replies[r][k].ok

\* a step in which request r arrives
Arrives(r) == req[r].pc = "idle" /\ req'[r].pc # "idle"

\* a step in which an aggregating request r is answered
Completes(r) == req[r].pc \notin {"idle", "done"} /\ req'[r].pc = "done"

IsPrefix(a, b) == Len(a) <= Len(b) /\ SubSeq(b, 1, Len(a)) = a

\* the userId is missing, empty, or has a character that is no decimal digit
BadUserId(q) ==
    \/ ~q.has
    \/ Len(q.userId) = 0
    \/ \E i \in 1..Len(q.userId) :
          q.userId[i] \notin {"0", "1", "2", "3", "4", "5", "6", "7", "8", "9"}

\* the vocabulary of developer-tier roles, as the glossary lists it
Vocabulary ==
    {<<"d", "e", "v", "e", "l", "o", "p", "e", "r">>,
     <<"b", "u", "i", "l", "d", "e", "r">>,
     <<"s", "c", "r", "i", "p", "t", "e", "r">>,
     <<"p", "r", "o", "g", "r", "a", "m", "m", "e", "r">>,
     <<"l", "e", "a", "d", " ", "d", "e", "v", "e", "l", "o", "p", "e", "r">>,
     <<"c", "o", "-", "o", "w", "n", "e", "r">>,
     <<"o", "w", "n", "e", "r">>,
     <<"d", "e", "v">>,
     <<"g", "a", "m", "e", " ", "d", "e", "v", "e", "l", "o", "p", "e", "r">>,
     <<"l", "e", "a", "d", " ", "s", "c", "r", "i", "p", "t", "e", "r">>,
     <<"h", "e", "a", "d", " ", "d", "e", "v", "e", "l", "o", "p", "e", "r">>}

\* the character c is the lowercase letter or sign v, in either case
SameLetter(c, v) ==
    c = v \/ \E k \in 1..26 : LowerCase[k] = v /\ UpperCase[k] = c

\* name contains a vocabulary entry somewhere, letter case ignored
MatchesVocabulary(name) ==
    \E v \in Vocabulary : \E start \in 0..(Len(name) - Len(v)) :
        \A j \in 1..Len(v) : SameLetter(name[start + j], v[j])

\* a membership as the memberships endpoint documents it
Conforms(m) == m.hasRole /\ m.hasName /\ m.hasGroup

AllConform(groups) == \A i \in 1..Len(groups) : Conforms(groups[i])

DevTier(m) == m.hasRole /\ m.hasName /\ MatchesVocabulary(m.roleName)

\* the positions of the developer-tier memberships, in list order
DevIndices(groups) ==
    SelectSeq([i \in 1..Len(groups) |-> i], LAMBDA i : DevTier(groups[i]))

\* the memberships request r received: none if the call failed
GroupsReceived(r) ==
    IF Len(replies[r]) >= 2 /\ replies[r][2].ok /\ replies[r][2].hasData
    THEN replies[r][2].data ELSE <<>>

\* the calls of one whole aggregation over these memberships
ExpectedCalls(groups) ==
    LET dev == DevIndices(groups)
    IN  <<Fetch("userGames", 0), Fetch("groups", 0)>>
            \o [k \in 1..Len(dev) |-> Fetch("groupGames", dev[k])]

\* a games reply whose games are all objects
GamesConform(reply) ==
    reply.ok => \A i \in 1..Len(reply.data) : reply.data[i].isObject

RECURSIVE SumCounters(_)
SumCounters(games) ==
    IF games = <<>> THEN 0
    ELSE (IF games[1].hasPlaceVisits THEN games[1].placeVisits ELSE 0)
            + SumCounters(Tail(games))

\* what the group-games replies from the k-th on add up to: a failed call
\* counts for nothing
RECURSIVE VisitsFrom(_, _)
VisitsFrom(rs, k) ==
    IF k > Len(rs) THEN 0
    ELSE (IF rs[k].ok THEN SumCounters(rs[k].data) ELSE 0) + VisitsFrom(rs, k + 1)

RECURSIVE GamesFrom(_, _)
GamesFrom(rs, k) ==
    IF k > Len(rs) THEN 0
    ELSE (IF rs[k].ok THEN Len(rs[k].data) ELSE 0) + GamesFrom(rs, k + 1)

(***************************************************************************)
(* Properties                                                              *)
(***************************************************************************)

\* C1: every 200 response with a summary, aggregated or served from the
\* cache, has totalVisits = personalVisits + groupVisits and
\* totalGames = personalGames + groupGames.
C1_TotalsAddUp ==
    \A r \in Reqs : Succeeded(r) =>
        LET b == res[r].body
        IN  /\ b.success = TRUE
            /\ b.totalVisits = b.breakdown.personalVisits + b.breakdown.groupVisits
            /\ b.breakdown.totalGames
                  = b.breakdown.personalGames + b.breakdown.groupGames

\* a summary with personal and group visits, served from the cache
C1_Witness ==
    \E r \in Reqs :
        /\ ServedFromCache(r)
        /\ res[r].body.breakdown.personalVisits = 5
        /\ res[r].body.breakdown.groupVisits = 5
        /\ res[r].body.breakdown.totalGames = 2

\* C2: a request (not OPTIONS) whose userId is missing, empty or not all
\* digits is answered 400 on arrival, without an upstream call, a cache read
\* or a cache write.
C2_BadUserIdIs400 ==
    [][\A r \in Reqs :
          (Arrives(r) /\ req'[r].method # "OPTIONS" /\ BadUserId(req'[r].query))
          => /\ req'[r].pc = "done"
             /\ res'[r].status = 400
             /\ trace'[r] = <<>>
             /\ replies'[r] = <<>>
             /\ cache' = cache]_vars

\* "abc" is answered 400 while the cache holds an entry
C2_Witness ==
    \E r \in Reqs :
        /\ Done(r) /\ req[r].method = "GET"
        /\ req[r].query = UserId(<<"a", "b", "c">>)
        /\ res[r].status = 400
        /\ cache # <<>>

\* C3: a request that arrives while the cache holds an entry of its userId
\* stored less than 5 minutes ago is answered 200 with that entry's data,
\* makes no upstream call and leaves the cache as it is; and the entry a
\* successful aggregation stores is the very result it responds with,
\* stamped with the time of storing.
C3_FreshEntryIsServed ==
    [][\A r \in Reqs :
          /\ (/\ Arrives(r) /\ req'[r].method # "OPTIONS"
              /\ ~BadUserId(req'[r].query)
              /\ \E i \in 1..Len(cache) :
                    /\ cache[i].key = CacheKey(req'[r].query.userId)
                    /\ now - cache[i].timestamp < 5 * 60 * 1000)
             => /\ req'[r].pc = "done"
                /\ \E i \in 1..Len(cache) :
                      /\ cache[i].key = CacheKey(req'[r].query.userId)
                      /\ res'[r] = [status |-> 200, body |-> cache[i].data]
                /\ trace'[r] = <<Ev("cache.get", "", 0)>>
                /\ replies'[r] = <<>>
                /\ cache' = cache
          /\ (Completes(r) /\ res'[r].status = 200)
             => \E i \in 1..Len(cache') :
                   cache'[i] = [key |-> CacheKey(req'[r].userId),
                                data |-> res'[r].body, timestamp |-> now]]_vars

\* two requests for one userId: the first aggregates at time 0, the second
\* arrives 299,999 ms later and gets the same response, timestamp included
C3_Witness ==
    \E r1, r2 \in Reqs :
        /\ r1 # r2
        /\ Succeeded(r1) /\ Wrote(r1)
        /\ ServedFromCache(r2)
        /\ req[r2].userId = req[r1].userId
        /\ res[r2] = res[r1]
        /\ res[r1].body.totalVisits = 10
        /\ res[r1].body.timestamp = toISOString(0)
        /\ now = 299999

\* C4: when the personal-games call fails while the memberships call and
\* every group-games call succeed (with bodies of the documented shape), the
\* response is 200 with personalVisits = 0 and personalGames = 0, every
\* developer-tier group was fetched, and groupVisits is the sum of the visit
\* counters of all their games.
C4_PersonalFailureIsTolerated ==
    \A r \in Reqs :
        (/\ Done(r) /\ Len(replies[r]) >= 2
         /\ ~replies[r][1].ok
         /\ replies[r][2].ok /\ AllConform(GroupsReceived(r))
         /\ \A k \in 3..Len(replies[r]) :
               replies[r][k].ok /\ GamesConform(replies[r][k]))
        => /\ Succeeded(r)
           /\ res[r].body.breakdown.personalVisits = 0
           /\ res[r].body.breakdown.personalGames = 0
           /\ Len(replies[r]) - 2 = Len(DevIndices(GroupsReceived(r)))
           /\ res[r].body.breakdown.groupVisits = VisitsFrom(replies[r], 3)

\* the personal call failed; of three memberships the first and the last
\* are developer-tier and their games carry 12 visits each
C4_Witness ==
    \E r \in Reqs :
        /\ Done(r) /\ Len(replies[r]) = 4
        /\ ~replies[r][1].ok
        /\ req[r].groups = <<Membership(CoOwner, 1), Membership(Moderator, 3),
                             Membership(LeadScripter, 2)>>
        /\ res[r].status = 200
        /\ res[r].body.breakdown.personalVisits = 0
        /\ res[r].body.breakdown.groupVisits = 24
        /\ res[r].body.totalVisits = 24

\* C5: a cache write of a new key into a cache of 100 entries deletes
\* exactly the earliest-inserted entry and nothing else, which leaves 100
\* entries with the new one last; any other write deletes nothing; and the
\* cache never holds more than 100 entries after a step.
C5_EvictsEarliestInserted ==
    [][/\ Len(cache') <= 100
       /\ \A r \in Reqs :
             (Completes(r) /\ res'[r].status = 200) =>
                LET key == CacheKey(req'[r].userId)
                IN  IF key \notin CacheKeys(cache) /\ Len(cache) = 100
                    THEN /\ Len(cache') = 100
                         /\ SubSeq(cache', 1, 99) = Tail(cache)
                         /\ cache'[100].key = key
                         /\ cache[1].key \notin CacheKeys(cache')
                    ELSE /\ CacheKeys(cache) \subseteq CacheKeys(cache')
                         /\ Len(cache') =
                               Len(cache) + (IF key \in CacheKeys(cache)
                                             THEN 0 ELSE 1)]_vars

\* the earliest-inserted entry was served from the cache to one request and
\* then deleted when the next request stored the 101st entry
C5_Witness ==
    \E r1, r2 \in Reqs :
        /\ ServedFromCache(r1)
        /\ req[r1].userId = ToDigits(Filler(1))
        /\ Done(r2) /\ Wrote(r2)
        /\ trace[r2][Len(trace[r2])].ev = "cache.delete"
        /\ Len(cache) = 100
        /\ CacheKey(ToDigits(Filler(1))) \notin CacheKeys(cache)
        /\ cache[1].key = CacheKey(ToDigits(Filler(2)))
        /\ cache[100].key = CacheKey(req[r2].userId)

\* C6: an aggregation whose membership list holds a record that makes the
\* loop throw outside the inner try (no role, no role name, or a
\* developer-tier role without a group) is answered 500 with success:false
\* and the userId, and the step that answers it leaves the cache as it is.
C6_FatalErrorIs500 ==
    [][\A r \in Reqs :
          (/\ Completes(r)
           /\ \E i \in 1..Len(req'[r].groups) :
                 LET m == req'[r].groups[i]
                 IN  ~m.hasRole \/ ~m.hasName \/ (DevTier(m) /\ ~m.hasGroup))
          => /\ res'[r].status = 500
             /\ res'[r].body.kind = "json"
             /\ res'[r].body.success = FALSE
             /\ res'[r].body.userId = req'[r].query.userId
             /\ ~\E i \in 1..Len(trace'[r]) : trace'[r][i].ev = "cache.set"
             /\ cache' = cache]_vars

\* a request fetched one group's games, met a membership without a role and
\* was answered 500; the cache holds another request's entry and none of its
C6_Witness ==
    \E r \in Reqs :
        /\ Done(r) /\ res[r].status = 500
        /\ Len(replies[r]) = 3 /\ replies[r][3].ok
        /\ req[r].groups = <<Membership(CoOwner, 1), NoRole>>
        /\ cache # <<>>
        /\ CacheKey(req[r].userId) \notin CacheKeys(cache)

\* C7: isDeveloperRole answers true exactly for the names that contain an
\* entry of the vocabulary with letter case ignored; "Co-Owner" and
\* "LEAD SCRIPTER" are developer-tier, "Moderator" is not.
C7_RoleClassification ==
    probe.classified =>
        /\ probe.result = MatchesVocabulary(probe.roleName)
        /\ probe.roleName \in {CoOwner, LeadScripter} => probe.result
        /\ probe.roleName = Moderator => ~probe.result

\* "LEAD SCRIPTER" has been classified as developer-tier
C7_Witness ==
    probe.classified /\ probe.roleName = LeadScripter /\ probe.result

\* C8: an OPTIONS request is answered 200 without a body on arrival,
\* whatever its userId, with no upstream call, no cache read and no cache
\* write.
C8_OptionsIsBare200 ==
    [][\A r \in Reqs :
          (Arrives(r) /\ req'[r].method = "OPTIONS")
          => /\ req'[r].pc = "done"
             /\ res'[r] = [status |-> 200, body |-> [kind |-> "end"]]
             /\ trace'[r] = <<>>
             /\ replies'[r] = <<>>
             /\ cache' = cache]_vars

\* an OPTIONS request with the userId "abc" was answered 200 while the cache
\* holds an entry
C8_Witness ==
    \E r \in Reqs :
        /\ Done(r) /\ req[r].method = "OPTIONS"
        /\ req[r].query = UserId(<<"a", "b", "c">>)
        /\ res[r].status = 200
        /\ cache # <<>>

\* C9: in an aggregation over memberships of the documented shape (and
\* games replies whose games are objects), whichever group-games calls
\* fail, the response is 200, every developer-tier group is fetched, in
\* list order, and groupVisits and groupGames are the sums over the calls
\* that did not fail.
C9_GroupFailureIsIsolated ==
    \A r \in Reqs :
        (/\ Done(r) /\ Len(replies[r]) >= 2
         /\ AllConform(GroupsReceived(r))
         /\ \A k \in 3..Len(replies[r]) : GamesConform(replies[r][k]))
        => /\ Succeeded(r)
           /\ Calls(r) = ExpectedCalls(GroupsReceived(r))
           /\ Len(replies[r]) = Len(Calls(r))
           /\ res[r].body.breakdown.groupVisits = VisitsFrom(replies[r], 3)
           /\ res[r].body.breakdown.groupGames = GamesFrom(replies[r], 3)

\* three developer-tier groups: the call for the second failed, the first
\* and the third gave 12 visits and 3 games each
C9_Witness ==
    \E r \in Reqs :
        /\ Done(r) /\ Len(replies[r]) = 5
        /\ Len(DevIndices(req[r].groups)) = 3
        /\ replies[r][3].ok /\ ~replies[r][4].ok /\ replies[r][5].ok
        /\ res[r].status = 200
        /\ res[r].body.breakdown.groupVisits = 24
        /\ res[r].body.breakdown.groupGames = 6

\* C10: at every moment the upstream calls a request has made are an
\* initial part of: the personal-games call, the memberships call, then one
\* group-games call per developer-tier membership in list order (none for
\* any other membership), so they number at most 1 + 1 + G and none is
\* repeated; each call has at most one reply; and an aggregation over
\* memberships of the documented shape ends having made all of them.
C10_EachCallOnce ==
    \A r \in Reqs :
        LET calls == Calls(r)
            expected == ExpectedCalls(GroupsReceived(r))
            G == Len(DevIndices(GroupsReceived(r)))
        IN  /\ Len(replies[r]) <= Len(calls)
            /\ Len(replies[r]) < 2 =>
                  IsPrefix(calls, <<Fetch("userGames", 0), Fetch("groups", 0)>>)
            /\ Len(replies[r]) >= 2 =>
                  /\ IsPrefix(calls, expected)
                  /\ Len(calls) <= 1 + 1 + G
            /\ (Done(r) /\ calls # <<>> /\ AllConform(GroupsReceived(r)))
                  => calls = expected

\* a finished aggregation over a developer-tier, another and a
\* developer-tier membership: four calls, the third of which failed
C10_Witness ==
    \E r \in Reqs :
        /\ Done(r)
        /\ req[r].groups = <<Membership(CoOwner, 1), Membership(Moderator, 3),
                             Membership(LeadScripter, 2)>>
        /\ Calls(r) = <<Fetch("userGames", 0), Fetch("groups", 0),
                        Fetch("groupGames", 1), Fetch("groupGames", 3)>>
        /\ ~replies[r][3].ok /\ replies[r][4].ok

\* C11: a request (not OPTIONS, valid userId) is answered from the cache on
\* arrival exactly when the cache holds an entry of its userId whose age is
\* strictly less than 300,000 ms; otherwise, at an age of 300,000 ms or more
\* too, it reads the cache, leaves it as it is and starts an aggregation with
\* the personal-games call, and when that aggregation succeeds the entry of
\* the userId is overwritten with the new result and the time of storing.
C11_HitOnlyBelow300000 ==
    [][\A r \in Reqs :
          /\ (Arrives(r) /\ req'[r].method # "OPTIONS" /\ ~BadUserId(req'[r].query))
             => LET key == CacheKey(req'[r].query.userId)
                    fresh == \E i \in 1..Len(cache) :
                                /\ cache[i].key = key
                                /\ now - cache[i].timestamp < 300000
                IN  /\ (req'[r].pc = "done") <=> fresh
                    /\ fresh => ServedFromCache(r)'
                    /\ ~fresh =>
                          /\ req'[r].pc = "awaitUserGames"
                          /\ res'[r].status = 0
                          /\ trace'[r] = <<Ev("cache.get", "", 0),
                                           Fetch("userGames", 0)>>
                          /\ cache' = cache
          /\ (/\ Completes(r) /\ res'[r].status = 200
              /\ CacheKey(req'[r].userId) \in CacheKeys(cache))
             => /\ Len(cache') = Len(cache)
                /\ \E i \in 1..Len(cache) :
                      /\ cache[i].key = CacheKey(req'[r].userId)
                      /\ cache'[i] = [key |-> cache[i].key,
                                      data |-> res'[r].body,
                                      timestamp |-> now]]_vars

\* the first request stored its result at time 0; the second, for the same
\* userId, arrived after it at an age of exactly 300,000 ms, aggregated again
\* and overwrote the entry, now stamped 300,000
C11_Witness ==
    \E r1, r2 \in Reqs :
        /\ r1 < r2 /\ req[r1].userId = req[r2].userId
        /\ Succeeded(r1) /\ Wrote(r1)
        /\ res[r1].body.timestamp = toISOString(0)
        /\ Succeeded(r2) /\ Wrote(r2)
        /\ res[r2].body.timestamp = toISOString(300000)
        /\ \E i \in 1..Len(cache) :
              cache[i] = [key |-> CacheKey(req[r2].userId),
                          data |-> res[r2].body, timestamp |-> 300000]

\* C12: when the memberships call fails, the aggregation goes on with no
\* membership: it ends without a group-games call, the response is 200 with
\* groupVisits = 0 and groupGames = 0, and the personal totals are kept:
\* totalVisits = personalVisits and totalGames = personalGames, which are
\* the sum of the visit counters and the number of the personal games
\* received (0 if that call failed too).
C12_GroupsFailureIsTolerated ==
    \A r \in Reqs :
        (Done(r) /\ Len(replies[r]) >= 2 /\ ~replies[r][2].ok)
        => LET b == res[r].body
           IN  /\ Succeeded(r)
               /\ Calls(r) = <<Fetch("userGames", 0), Fetch("groups", 0)>>
               /\ Len(replies[r]) = 2
               /\ b.breakdown.groupVisits = 0
               /\ b.breakdown.groupGames = 0
               /\ b.totalVisits = b.breakdown.personalVisits
               /\ b.breakdown.totalGames = b.breakdown.personalGames
               /\ GamesConform(replies[r][1]) =>
                     /\ b.breakdown.personalVisits = VisitsFrom(<<replies[r][1]>>, 1)
                     /\ b.breakdown.personalGames = GamesFrom(<<replies[r][1]>>, 1)

\* three personal games with 12 visits in all, then the memberships call
\* failed: a 200 response of 12 visits and 3 games, all of them personal
C12_Witness ==
    \E r \in Reqs :
        /\ Done(r) /\ Len(replies[r]) = 2
        /\ replies[r][1].ok /\ ~replies[r][2].ok
        /\ res[r].status = 200
        /\ res[r].body.totalVisits = 12
        /\ res[r].body.breakdown.personalVisits = 12
        /\ res[r].body.breakdown.personalGames = 3
        /\ res[r].body.breakdown.groupVisits = 0
        /\ res[r].body.breakdown.groupGames = 0

\* C13: a request that arrives while another request of the same userId is
\* aggregating, and finds no fresh entry, aggregates as well (nothing joins
\* the two); each aggregation that succeeds leaves exactly one entry of its
\* userId in the cache (no key is held twice), holding its own result,
\* whatever an overlapping request had stored there; every other entry is one
\* that was there before; the cache changes in no other step; and after every
\* step the cache holds at most 100 entries.
C13_OverlappingRequestsBothStore ==
    [][/\ Len(cache') <= 100
       /\ cache' # cache =>
             /\ \E r \in Reqs : Completes(r) /\ res'[r].status = 200
             /\ Cardinality(CacheKeys(cache')) = Len(cache')
       /\ \A r \in Reqs :
             /\ (/\ Arrives(r)
                 /\ ~IsFresh(CacheGet(cache, CacheKey(req'[r].userId)), now)
                 /\ \E o \in Reqs \ {r} :
                       /\ req[o].pc \notin {"idle", "done"}
                       /\ req[o].userId = req'[r].userId)
                => /\ req'[r].pc = "awaitUserGames"
                   /\ Calls(r)' = <<Fetch("userGames", 0)>>
                   /\ cache' = cache
             /\ (Completes(r) /\ res'[r].status = 200)
                => LET key == CacheKey(req'[r].userId)
                       mine == [key |-> key, data |-> res'[r].body,
                                timestamp |-> now]
                   IN  /\ mine \in CacheEntries(cache')
                       /\ CacheEntries(cache') \ {mine}
                             \subseteq CacheEntries(cache)]_vars

\* two requests of the same userId overlapped (no time passed, and the second
\* to arrive found no entry); both aggregated and stored, with different
\* results; the first to arrive stored last, so the one entry of the userId,
\* the 100th of the cache, holds its result
C13_Witness ==
    \E r1, r2 \in Reqs :
        /\ r1 < r2 /\ req[r1].userId = req[r2].userId
        /\ now = 0
        /\ Succeeded(r1) /\ Wrote(r1)
        /\ Succeeded(r2) /\ Wrote(r2)
        /\ res[r1].body # res[r2].body
        /\ Len(cache) = 100
        /\ cache[100] = [key |-> CacheKey(req[r1].userId),
                         data |-> res[r1].body, timestamp |-> 0]
        /\ \A i \in 1..99 : cache[i].key # CacheKey(req[r1].userId)

\* C14: a cache write of a key already present leaves the number of
\* entries, the order of the keys and every other entry as they were and
\* deletes nothing; no cache write deletes the entry it has just written;
\* and the entry a write deletes is the earliest-inserted one whatever its
\* stored-at time, so an entry that was just refreshed in place goes with
\* the next insertion of a new key into a cache of 100.
C14_OverwriteKeepsPosition ==
    [][\A r \in Reqs :
          (Completes(r) /\ res'[r].status = 200) =>
             LET key == CacheKey(req'[r].userId)
                 mine == [key |-> key, data |-> res'[r].body, timestamp |-> now]
             IN  /\ key \in CacheKeys(cache) =>
                       /\ Len(cache') = Len(cache)
                       /\ \A i \in 1..Len(cache) :
                             IF cache[i].key = key THEN cache'[i] = mine
                             ELSE cache'[i] = cache[i]
                       /\ \A k \in 1..Len(trace'[r]) :
                             trace'[r][k].ev # "cache.delete"
                 /\ \E i \in 1..Len(cache') : cache'[i] = mine
                 /\ (key \notin CacheKeys(cache) /\ Len(cache) = 100)
                       => /\ cache[1].key \notin CacheKeys(cache')
                          /\ trace'[r][Len(trace'[r])].ev = "cache.delete"]_vars

\* the earliest-inserted entry of a cache of 100 had expired and the first
\* request refreshed it in place, deleting nothing; the next request stored
\* a new key, and the entry refreshed a moment before was the one deleted
C14_Witness ==
    \E r1, r2 \in Reqs :
        /\ r1 < r2 /\ now = 300000
        /\ req[r1].userId = ToDigits(Filler(1))
        /\ Succeeded(r1) /\ Wrote(r1)
        /\ res[r1].body.timestamp = toISOString(300000)
        /\ trace[r1][Len(trace[r1])].ev = "cache.set"
        /\ req[r2].userId # req[r1].userId
        /\ Succeeded(r2) /\ Wrote(r2)
        /\ res[r2].body.timestamp = toISOString(300000)
        /\ trace[r2][Len(trace[r2])].ev = "cache.delete"
        /\ Len(cache) = 100
        /\ CacheKey(ToDigits(Filler(1))) \notin CacheKeys(cache)
        /\ cache[1].key = CacheKey(ToDigits(Filler(2)))
        /\ cache[100].key = CacheKey(req[r2].userId)

\* C15: an aggregation in which upstream calls failed is answered 200 and
\* its summary is stored like any other, with the time of storing (when
\* every call failed, a summary of 0 visits and 0 games); and a request that
\* arrives while the entry such an aggregation stored is in the cache and
\* less than 300,000 ms old is answered 200 with that same summary, without
\* an upstream call and without a cache write.
C15_DegradedResultIsCached ==
    [][\A r \in Reqs :
          /\ (Completes(r) /\ res'[r].status = 200 /\ Degraded(r)')
             => /\ Wrote(r)'
                /\ [key |-> CacheKey(req'[r].userId), data |-> res'[r].body,
                    timestamp |-> now] \in CacheEntries(cache')
                /\ (\A k \in 1..Len(replies'[r]) : ~replies'[r][k].ok)
                   => /\ res'[r].body.success = TRUE
                      /\ res'[r].body.totalVisits = 0
                      /\ res'[r].body.breakdown.totalGames = 0
          /\ \A o \in Reqs \ {r} :
                (/\ Arrives(r) /\ req'[r].method # "OPTIONS"
                 /\ Succeeded(o) /\ Wrote(o) /\ Degraded(o)
                 /\ req'[r].query = req[o].query
                 /\ \E i \in 1..Len(cache) :
                       /\ cache[i].key = CacheKey(req[o].userId)
                       /\ cache[i].data = res[o].body
                       /\ now - cache[i].timestamp < 300000)
                => /\ res'[r] = res[o]
                   /\ trace'[r] = <<Ev("cache.get", "", 0)>>
                   /\ cache' = cache]_vars

\* both calls of the first request failed and its summary of 0 visits and 0
\* games was stored; the second request, for the same userId, came after it
\* and was served that summary from the cache, where it still is
C15_Witness ==
    \E r1, r2 \in Reqs :
        /\ r1 < r2 /\ req[r1].userId = req[r2].userId
        /\ Succeeded(r1) /\ Wrote(r1)
        /\ Len(replies[r1]) = 2 /\ ~replies[r1][1].ok /\ ~replies[r1][2].ok
        /\ res[r1].body.totalVisits = 0
        /\ res[r1].body.breakdown.totalGames = 0
        /\ ServedFromCache(r2)
        /\ res[r2] = res[r1]
        /\ CacheGet(cache, CacheKey(req[r1].userId)).data = res[r1].body

====
